---- MODULE Spec2Model ----
(***************************************************************************)
(* Model of src/main.py: the shared parameter dictionary simulation_state, *)
(* its lock state_lock, the display loop (display_thread), the Flask       *)
(* handlers (index, api_params) and the shutdown flag set by main.         *)
(***************************************************************************)
EXTENDS Integers, Sequences, FiniteSets, TLC

\* ------------------------------------------------------------------ bounds
\* Total number of HTTP requests served in one run.
MaxRequests == 2
\* The wall clock (seconds since the display thread started) stops advancing here.
MaxTime == 10
\* Seconds that may pass between two readings of the clock by the display loop.
TickSeconds == 10

\* --------------------------------------------------------- program constants
IP_DISPLAY_DURATION == 10

\* ------------------------------------------------------------------ values
\* A Python float: a finite value n, or one of the non-finite values.
Fin(n) == [c |-> "fin", n |-> n]
NaN == [c |-> "nan", n |-> 0]
Inf == [c |-> "inf", n |-> 0]

\* A JSON value of a request body, as request.json delivers it: the bodies
\* below hold numbers and strings.
JNum(n) == [t |-> "num", n |-> n, s |-> ""]
JStr(s) == [t |-> "str", n |-> 0, s |-> s]

\* Python's float(v). The result is <<x>>, or <<>> when float raises
\* ValueError (a string that is no number).
float(v) ==
    CASE v.t = "num" -> <<Fin(v.n)>>
      [] v.t = "str" ->
            CASE v.s = "0" -> <<Fin(0)>>
              [] v.s = "4" -> <<Fin(4)>>
              [] v.s = "7" -> <<Fin(7)>>
              [] v.s = "nan" -> <<NaN>>
              [] v.s = "inf" -> <<Inf>>
              [] OTHER -> <<>>
      [] OTHER -> <<>>

\* The dictionary the process starts with.
DEFAULT_PARAMS ==
    [field_view |-> JStr("e_only"),
     radius |-> Fin(20),
     frequency |-> Fin(10),
     epsilon_r |-> Fin(1),
     mu_r |-> Fin(1),
     running |-> TRUE]

\* The keys api_params looks for, in the order of its if statements.
KeyOrder_shuffled == <<"field_view", "mu_r", "radius", "frequency", "epsilon_r">>
KeyOrder == <<"field_view", "radius", "frequency", "epsilon_r", "mu_r">>
NumericKeys == {"radius", "frequency", "epsilon_r", "mu_r"}

\* ---------------------------------------------------------- request bodies
\* A JSON object is the sequence of its members in the order they were sent.
Member(k, v) == [k |-> k, v |-> v]

Bodies ==
    { <<Member("radius", JNum(5))>>,
      <<Member("bogus", JNum(1))>>,
      <<Member("frequency", JStr("abc"))>>,
      <<Member("mu_r", JNum(2)), Member("frequency", JStr("abc")), Member("radius", JNum(7))>>,
      <<Member("radius", JNum(0))>>,
      <<Member("field_view", JStr("xyz")), Member("epsilon_r", JStr("nan"))>>,
      <<Member("field_view", JStr("h_only")), Member("radius", JStr("7")),
        Member("frequency", JNum(12)), Member("mu_r", JNum(2))>> }

\* 'k' in data
Has(data, k) == \E i \in DOMAIN data : data[i].k = k

\* data['k']: the last member of that name, as json.loads keeps it.
Get(data, k) ==
    LET i == CHOOSE j \in DOMAIN data :
                 data[j].k = k /\ \A m \in DOMAIN data : data[m].k = k => m <= j
    IN data[i].v

\* The value one if statement of api_params assigns to simulation_state[k]:
\* <<value>>, or <<>> when the right-hand side raises.
Coerce(k, v) == IF k = "field_view" THEN <<v>> ELSE float(v)

\* The field of simulation_state that the if statement for key k assigns.
TargetField_wrong(k) == IF k = "mu_r" THEN "epsilon_r" ELSE k
TargetField(k) == k

\* simulation_state[TargetField(k)] = x
Assign(st, k, x) == [st EXCEPT ![TargetField(k)] = x]

\* The position in KeyOrder of the first key at or after i that data holds
\* (Len(KeyOrder) + 1 when there is none): the if statements in between are skipped.
RECURSIVE NextKey(_, _)
NextKey(data, i) ==
    IF i > Len(KeyOrder) THEN i
    ELSE IF Has(data, KeyOrder[i]) THEN i
    ELSE NextKey(data, i + 1)

\* The body of the with block of api_params run from key i without interruption:
\* [st |-> the dictionary it leaves, raised |-> whether it left by an exception].
RECURSIVE RunUpdate(_, _, _)
RunUpdate(st, data, i) ==
    IF i > Len(KeyOrder) THEN [st |-> st, raised |-> FALSE]
    ELSE IF ~Has(data, KeyOrder[i]) THEN RunUpdate(st, data, i + 1)
    ELSE LET x == Coerce(KeyOrder[i], Get(data, KeyOrder[i]))
         IN IF x = <<>> THEN [st |-> st, raised |-> TRUE]
            ELSE RunUpdate(Assign(st, KeyOrder[i], x[1]), data, i + 1)

\* -------------------------------------------------------------- field model
\* What the float arithmetic of the field model depends on: whether a value is
\* zero, positive and finite, infinite or not a number.
Class(x) == IF x.c = "fin" THEN (IF x.n = 0 THEN "zero" ELSE "pos") ELSE x.c

\* A positive Python float divided by a Python float of class c: <<class of the
\* quotient>>, or <<>> when Python raises ZeroDivisionError.
PyDiv(c) ==
    CASE c = "zero" -> <<>>
      [] c = "pos" -> <<"pos">>
      [] c = "inf" -> <<"zero">>
      [] OTHER -> <<"nan">>

\* calculate_waveguide_params: <<the classes of the returned quantities>>, or
\* <<>> when one of its three Python divisions raises.
calculate_waveguide_params(radius_mm, frequency_GHz, epsilon_r, mu_r) ==
    LET radius == Class(radius_mm)
        frequency == Class(frequency_GHz)
        wavelength == PyDiv(frequency)
        k == IF wavelength = <<>> THEN <<>> ELSE PyDiv(wavelength[1])
        kc == PyDiv(radius)
    IN IF wavelength = <<>> \/ k = <<>> \/ kc = <<>> THEN <<>>
       ELSE <<[wavelength |-> wavelength[1], k |-> k[1], kc |-> kc[1], radius |-> radius]>>

\* calculate_field_distribution followed by render_field_distribution: numpy
\* arithmetic on the returned quantities, which does not raise. The frame shows
\* |E| for field_view 'e_only' and |H| for anything else.
render_field_distribution(wg_params, p) ==
    [kind |-> "field",
     view |-> IF p.field_view = JStr("e_only") THEN "E" ELSE "H",
     from |-> <<p>>]

\* create_ip_display
create_ip_display == [kind |-> "splash", view |-> "", from |-> <<>>]

NoImg == [kind |-> "none", view |-> "", from |-> <<>>]

\* ------------------------------------------------------------------ state
\* The Flask worker threads that serve requests at the same time.
Handlers == {1, 2}

\* Values of state_lock: free, or held by a thread.
Free == <<>>
DisplayThread == <<"display", 0>>
Handler(h) == <<"handler", h>>

VARIABLES
    simulation_state,   \* the shared dictionary
    state_lock,         \* Free or the thread inside a with state_lock block
    shutdown_event,     \* the threading.Event main sets
    DISPLAY_AVAILABLE,  \* whether the ST7789 driver was imported
    display_instance,   \* "None" or "ST7789"
    pushed,             \* <<the frame given to display_instance.display>> by the
                        \* last iteration, <<>> when it gave none
    current_time,       \* display_thread's last reading of time.time(), in seconds
                        \* since the thread started; the clock is taken not to be
                        \* set back while the loop runs
    ip_show_until,
    dpc,                \* where display_thread is
    params,             \* display_thread's local copy, <<>> before it is taken
    img,                \* display_thread's frame of the iteration
    phase,              \* the branch the last iteration took: "Splash" or "Live"
    hpc,                \* where each Flask worker is
    hop,                \* the request it serves: "POST" or "GET"
    hdata,              \* request.json
    hi,                 \* the position in KeyOrder of the if statement it is at
    hraised,            \* whether the with block was left by an exception
    hparams,            \* the handler's local copy
    hresp,              \* <<the response it sent>>
    nreq,               \* requests accepted so far
    startStore,         \* history: the dictionary when the worker entered its with block
    endStore,           \* history: the dictionary when the worker left its with block
    seqStore,           \* history: the updates run one after another in lock order
    pushes_after,       \* history: frames given to the sink since shutdown was set
    sleeps_after,       \* history: sleeps started since shutdown was set
    fcall,              \* a call of a function of the field model or of the renderer
                        \* on its own: <<[fn, args]>>, <<>> when none was made
    fret                \* <<what that call returned>>

dvars == <<DISPLAY_AVAILABLE, display_instance, pushed, current_time, ip_show_until, dpc,
           params, img, phase, pushes_after, sleeps_after>>
hvars == <<hpc, hop, hdata, hi, hraised, hparams, hresp, nreq, startStore, endStore>>
fvars == <<fcall, fret>>
pvars == <<simulation_state, state_lock, shutdown_event, seqStore, dvars, hvars>>
vars == <<pvars, fvars>>

Init ==
    /\ simulation_state = DEFAULT_PARAMS
    /\ state_lock = Free
    /\ shutdown_event = FALSE
    /\ DISPLAY_AVAILABLE \in BOOLEAN
    /\ display_instance = "None"
    /\ pushed = <<>>
    /\ current_time = 0
    /\ ip_show_until = 0
    /\ dpc = "init"
    /\ params = <<>>
    /\ img = NoImg
    /\ phase = "None"
    /\ hpc = [h \in Handlers |-> "idle"]
    /\ hop = [h \in Handlers |-> ""]
    /\ hdata = [h \in Handlers |-> <<>>]
    /\ hi = [h \in Handlers |-> 0]
    /\ hraised = [h \in Handlers |-> FALSE]
    /\ hparams = [h \in Handlers |-> <<>>]
    /\ hresp = [h \in Handlers |-> <<>>]
    /\ nreq = 0
    /\ startStore = [h \in Handlers |-> <<>>]
    /\ endStore = [h \in Handlers |-> <<>>]
    /\ seqStore = DEFAULT_PARAMS
    /\ pushes_after = 0
    /\ sleeps_after = 0
    /\ fcall = <<>>
    /\ fret = <<>>

Min(a, b) == IF a < b THEN a ELSE b

\* ----------------------------------------------------------- the state lock
\* with state_lock: of display_thread, of index and GET /api/params, and of
\* POST /api/params: each blocks until the lock is free.
EnterSnapshot == state_lock = Free
EnterGet_nolock == TRUE
EnterGet == state_lock = Free
EnterUpdate_nolock == TRUE
EnterUpdate == state_lock = Free

\* The lock when the thread holding it leaves its with state_lock block, by the
\* end of the block or (raised) by an exception: the context manager releases it.
LockAfterBlock_kept(holder, raised) == holder
LockAfterBlock_leak(holder, raised) == IF raised THEN holder ELSE Free
LockAfterBlock(holder, raised) == Free

\* ------------------------------------------------------------ display_thread
\* The test of the while loop.
LoopCondition_forever == TRUE
LoopCondition == ~shutdown_event

\* current_time < ip_show_until
InSplash_reversed(t, until) == t >= until
InSplash(t, until) == t < until

\* if DISPLAY_AVAILABLE and display_instance
SinkPresent_unchecked == DISPLAY_AVAILABLE
SinkPresent == DISPLAY_AVAILABLE /\ display_instance # "None"

\* The thread has ended, by leaving the loop or by an exception: its locals
\* are gone and what it did is no longer recorded.
ThreadEnds ==
    /\ params' = <<>>
    /\ img' = NoImg
    /\ pushed' = <<>>
    /\ current_time' = 0
    /\ ip_show_until' = 0
    /\ phase' = "None"
    /\ pushes_after' = 0
    /\ sleeps_after' = 0

\* The initialisation before the loop: the driver is constructed when it was
\* imported, and the constructor either returns or raises (display_instance
\* stays None); ip_show_until is set from the clock.
DisplayInit ==
    /\ dpc = "init"
    /\ display_instance' \in (IF DISPLAY_AVAILABLE THEN {"ST7789", "None"} ELSE {"None"})
    /\ ip_show_until' = current_time + IP_DISPLAY_DURATION
    /\ dpc' = "loop"
    /\ UNCHANGED <<fvars, simulation_state, state_lock, shutdown_event, seqStore, hvars,
                   DISPLAY_AVAILABLE, pushed, current_time, params, img, phase,
                   pushes_after, sleeps_after>>

\* The while test, the clock read (no time or TickSeconds have passed since
\* the last one) and the choice between splash and model. What the previous
\* iteration left in the locals is dead and is reset.
DisplayLoopTest ==
    /\ dpc = "loop"
    /\ IF LoopCondition
       THEN /\ \E d \in {0, TickSeconds} : current_time' = Min(current_time + d, MaxTime)
            /\ IF InSplash(current_time', ip_show_until)
               THEN /\ img' = create_ip_display
                    /\ phase' = "Splash"
                    /\ dpc' = "frame"
               ELSE /\ img' = NoImg
                    /\ phase' = "Live"
                    /\ dpc' = "lock"
            /\ params' = <<>>
            /\ pushed' = <<>>
            /\ UNCHANGED <<ip_show_until, pushes_after, sleeps_after>>
       ELSE /\ dpc' = "done"
            /\ ThreadEnds
    /\ UNCHANGED <<fvars, simulation_state, state_lock, shutdown_event, seqStore, hvars,
                   DISPLAY_AVAILABLE, display_instance>>

\* with state_lock: entered
DisplayAcquire ==
    /\ dpc = "lock"
    /\ EnterSnapshot
    /\ state_lock' = DisplayThread
    /\ dpc' = "copy"
    /\ UNCHANGED <<fvars, simulation_state, shutdown_event, seqStore, hvars,
                   DISPLAY_AVAILABLE, display_instance, pushed, current_time, ip_show_until,
                   params, img, phase, pushes_after, sleeps_after>>

\* params = simulation_state.copy(), and the with block is left
DisplayCopy ==
    /\ dpc = "copy"
    /\ params' = <<simulation_state>>
    /\ state_lock' = LockAfterBlock(DisplayThread, FALSE)
    /\ dpc' = "frame"
    /\ UNCHANGED <<fvars, simulation_state, shutdown_event, seqStore, hvars,
                   DISPLAY_AVAILABLE, display_instance, pushed, current_time, ip_show_until,
                   img, phase, pushes_after, sleeps_after>>

\* The frame of a Live iteration: the field model and the renderer on the
\* local copy, <<frame>>, or <<>> when the field model raises.
LiveFrame_shared(p) ==
    LET s == simulation_state
        wg == calculate_waveguide_params(s.radius, s.frequency, s.epsilon_r, s.mu_r)
    IN IF wg = <<>> THEN <<>> ELSE <<render_field_distribution(wg[1], s)>>
LiveFrame(p) ==
    LET wg == calculate_waveguide_params(p.radius, p.frequency, p.epsilon_r, p.mu_r)
    IN IF wg = <<>> THEN <<>> ELSE <<render_field_distribution(wg[1], p)>>

\* The rest of an iteration, which touches nothing shared: a Live iteration
\* computes its frame from the local copy (an exception of the field model is
\* caught nowhere and ends the thread); the frame goes to the sink when there
\* is one (a call of display on None would raise AttributeError and end the
\* thread); time.sleep(0.05).
DisplayFrame ==
    /\ dpc = "frame"
    /\ LET frame == IF phase = "Live" THEN LiveFrame(params[1]) ELSE <<img>>
       IN IF frame = <<>>
          THEN /\ dpc' = "crashed"
               /\ ThreadEnds
          ELSE IF SinkPresent /\ display_instance = "None"
          THEN /\ dpc' = "crashed_sink"
               /\ ThreadEnds
          ELSE /\ img' = frame[1]
               /\ pushed' = IF SinkPresent THEN frame ELSE pushed
               /\ pushes_after' = IF SinkPresent /\ shutdown_event
                                  THEN Min(pushes_after + 1, 2) ELSE pushes_after
               /\ sleeps_after' = IF shutdown_event
                                  THEN Min(sleeps_after + 1, 2) ELSE sleeps_after
               /\ dpc' = "loop"
               /\ UNCHANGED <<current_time, ip_show_until, params, phase>>
    /\ UNCHANGED <<fvars, simulation_state, state_lock, shutdown_event, seqStore, hvars,
                   DISPLAY_AVAILABLE, display_instance>>

DisplayNext ==
    \/ DisplayInit
    \/ DisplayLoopTest
    \/ DisplayAcquire
    \/ DisplayCopy
    \/ DisplayFrame

\* ------------------------------------------------------------------- main
\* KeyboardInterrupt in main: shutdown_event.set()
KeyboardInterrupt ==
    /\ ~shutdown_event
    /\ shutdown_event' = TRUE
    /\ UNCHANGED <<fvars, simulation_state, state_lock, seqStore, dvars, hvars>>

\* ------------------------------------------------------------ Flask handlers
\* A request is taken by a worker that is idle; the workers are interchangeable
\* and the one of lowest number takes it.
Idle(h) ==
    /\ hpc[h] = "idle"
    /\ \A g \in Handlers : g < h => hpc[g] # "idle"
    /\ nreq < MaxRequests

\* A POST /api/params arrives with a JSON object as its body.
StartPost(h) ==
    /\ Idle(h)
    /\ \E body \in Bodies : hdata' = [hdata EXCEPT ![h] = body]
    /\ hop' = [hop EXCEPT ![h] = "POST"]
    /\ hpc' = [hpc EXCEPT ![h] = "enter"]
    /\ nreq' = nreq + 1
    /\ UNCHANGED <<fvars, simulation_state, state_lock, shutdown_event, seqStore, dvars,
                   hi, hraised, hparams, hresp, startStore, endStore>>

\* A GET /api/params or a GET / arrives: index and the GET branch of api_params
\* take their copy with the same two lines.
StartGet(h) ==
    /\ Idle(h)
    /\ hop' = [hop EXCEPT ![h] = "GET"]
    /\ hpc' = [hpc EXCEPT ![h] = "enter"]
    /\ nreq' = nreq + 1
    /\ UNCHANGED <<fvars, simulation_state, state_lock, shutdown_event, seqStore, dvars,
                   hdata, hi, hraised, hparams, hresp, startStore, endStore>>

\* api_params, POST: with state_lock: entered. The if statements for keys the
\* body does not hold are passed over.
PostAcquire(h) ==
    /\ hpc[h] = "enter" /\ hop[h] = "POST"
    /\ EnterUpdate
    /\ state_lock' = Handler(h)
    /\ hi' = [hi EXCEPT ![h] = NextKey(hdata[h], 1)]
    /\ hpc' = [hpc EXCEPT ![h] = "update"]
    /\ startStore' = [startStore EXCEPT ![h] = <<simulation_state>>]
    /\ seqStore' = RunUpdate(seqStore, hdata[h], 1).st
    /\ UNCHANGED <<fvars, simulation_state, shutdown_event, dvars,
                   hop, hdata, hraised, hparams, hresp, nreq, endStore>>

\* One if statement whose key the body holds: the value is coerced and
\* assigned, or the coercion raises and the rest of the block is not run.
PostAssign(h) ==
    /\ hpc[h] = "update" /\ hi[h] <= Len(KeyOrder)
    /\ LET k == KeyOrder[hi[h]]
           x == Coerce(k, Get(hdata[h], k))
       IN IF x = <<>>
          THEN /\ hraised' = [hraised EXCEPT ![h] = TRUE]
               /\ hi' = [hi EXCEPT ![h] = Len(KeyOrder) + 1]
               /\ UNCHANGED simulation_state
          ELSE /\ simulation_state' = Assign(simulation_state, k, x[1])
               /\ hi' = [hi EXCEPT ![h] = NextKey(hdata[h], hi[h] + 1)]
               /\ UNCHANGED hraised
    /\ UNCHANGED <<fvars, state_lock, shutdown_event, seqStore, dvars,
                   hpc, hop, hdata, hparams, hresp, nreq, startStore, endStore>>

\* The with block is left, by its end or by the exception: the lock is released.
PostRelease(h) ==
    /\ hpc[h] = "update" /\ hi[h] > Len(KeyOrder)
    /\ state_lock' = LockAfterBlock(Handler(h), hraised[h])
    /\ endStore' = [endStore EXCEPT ![h] = <<simulation_state>>]
    /\ startStore' = [startStore EXCEPT ![h] = <<>>]
    /\ hpc' = [hpc EXCEPT ![h] = "respond"]
    /\ UNCHANGED <<fvars, simulation_state, shutdown_event, seqStore, dvars,
                   hop, hdata, hi, hraised, hparams, hresp, nreq>>

\* return jsonify({'status': 'ok', 'params': simulation_state}): the shared
\* dictionary is read after the with block. An exception of the block is
\* answered by Flask with status 500 and no params.
PostRespond(h) ==
    /\ hpc[h] = "respond" /\ hop[h] = "POST"
    /\ hresp' = [hresp EXCEPT ![h] =
                    IF hraised[h]
                    THEN <<[status |-> "500", params |-> <<>>]>>
                    ELSE <<[status |-> "ok", params |-> <<simulation_state>>]>>]
    /\ hpc' = [hpc EXCEPT ![h] = "sent"]
    /\ UNCHANGED <<fvars, simulation_state, state_lock, shutdown_event, seqStore, dvars,
                   hop, hdata, hi, hraised, hparams, nreq, startStore, endStore>>

\* index and api_params, GET: with state_lock: entered
GetAcquire(h) ==
    /\ hpc[h] = "enter" /\ hop[h] = "GET"
    /\ EnterGet
    /\ state_lock' = Handler(h)
    /\ hpc' = [hpc EXCEPT ![h] = "copy"]
    /\ UNCHANGED <<fvars, simulation_state, shutdown_event, seqStore, dvars,
                   hop, hdata, hi, hraised, hparams, hresp, nreq, startStore, endStore>>

\* params = simulation_state.copy(), and the with block is left
GetCopy(h) ==
    /\ hpc[h] = "copy"
    /\ hparams' = [hparams EXCEPT ![h] = <<simulation_state>>]
    /\ state_lock' = LockAfterBlock(Handler(h), FALSE)
    /\ hpc' = [hpc EXCEPT ![h] = "respond"]
    /\ UNCHANGED <<fvars, simulation_state, shutdown_event, seqStore, dvars,
                   hop, hdata, hi, hraised, hresp, nreq, startStore, endStore>>

\* return jsonify(params), or the page rendered from params
GetRespond(h) ==
    /\ hpc[h] = "respond" /\ hop[h] = "GET"
    /\ hresp' = [hresp EXCEPT ![h] = <<[status |-> "ok", params |-> hparams[h]]>>]
    /\ hpc' = [hpc EXCEPT ![h] = "sent"]
    /\ UNCHANGED <<fvars, simulation_state, state_lock, shutdown_event, seqStore, dvars,
                   hop, hdata, hi, hraised, hparams, nreq, startStore, endStore>>

\* The request is over; the worker's locals are gone.
Close(h) ==
    /\ hpc[h] = "sent"
    /\ hpc' = [hpc EXCEPT ![h] = "idle"]
    /\ hop' = [hop EXCEPT ![h] = ""]
    /\ hdata' = [hdata EXCEPT ![h] = <<>>]
    /\ hi' = [hi EXCEPT ![h] = 0]
    /\ hraised' = [hraised EXCEPT ![h] = FALSE]
    /\ hparams' = [hparams EXCEPT ![h] = <<>>]
    /\ hresp' = [hresp EXCEPT ![h] = <<>>]
    /\ endStore' = [endStore EXCEPT ![h] = <<>>]
    /\ UNCHANGED <<fvars, simulation_state, state_lock, shutdown_event, seqStore, dvars,
                   nreq, startStore>>

\* The steps of a worker once it has a request.
HandlerStep(h) ==
    \/ PostAcquire(h)
    \/ PostAssign(h)
    \/ PostRelease(h)
    \/ PostRespond(h)
    \/ GetAcquire(h)
    \/ GetCopy(h)
    \/ GetRespond(h)
    \/ Close(h)

Next ==
    \/ DisplayNext
    \/ KeyboardInterrupt
    \/ \E h \in Handlers : StartPost(h) \/ StartGet(h) \/ HandlerStep(h)

Spec == Init /\ [][Next]_vars

\* The threads are scheduled by the operating system: a thread that can take a
\* step is not passed over forever. Requests and the interrupt need not come.
FairSpec ==
    /\ Spec
    /\ WF_vars(DisplayNext)
    /\ \A h \in Handlers : WF_vars(HandlerStep(h))

\* Between two snapshots the display loop leaves the lock free for the time of
\* its computation and of its sleep of 50 ms, in which a worker blocked in
\* with state_lock is woken and takes it: a worker that can take a step again
\* and again is not passed over forever.
LockFairSpec ==
    /\ Spec
    /\ WF_vars(DisplayNext)
    /\ \A h \in Handlers : SF_vars(HandlerStep(h))

\* -------------------------------------------- the functions on their own
\* The inputs of a call range over these bounds.
\* radius, epsilon_r and mu_r range over powers of two and four up to this exponent.
MaxExp == 1
\* The number of samples of a field (the resolution).
NumSamples == 2
\* The largest magnitude of a sample, in units of 1e-10.
MaxSample == 2

\* A real number of the field model, as the fraction <<p, q>> in lowest terms, q > 0.
RECURSIVE GCD(_, _)
GCD(a, b) == IF b = 0 THEN a ELSE GCD(b, a % b)
Abs(x) == IF x < 0 THEN -x ELSE x
Rat(p, q) ==
    LET g == GCD(Abs(p), Abs(q))
        s == IF q < 0 THEN -1 ELSE 1
    IN <<(s * p) \div g, (s * q) \div g>>
RMul(a, b) == Rat(a[1] * b[1], a[2] * b[2])
RDiv(a, b) == Rat(a[1] * b[2], a[2] * b[1])
RSub(a, b) == Rat(a[1] * b[2] - b[1] * a[2], a[2] * b[2])
RLe(a, b) == a[1] * b[2] <= b[1] * a[2]
RMax(a, b) == IF RLe(a, b) THEN b ELSE a
\* np.sqrt of a fraction of two squares
ISqrt(n) == CHOOSE s \in 0..n : s * s = n
RSqrt(a) == <<ISqrt(a[1]), ISqrt(a[2])>>
Zero == <<0, 1>>
One == <<1, 1>>
RECURSIVE Pow(_, _)
Pow(b, e) == IF e = 0 THEN 1 ELSE b * Pow(b, e - 1)
\* b to the power e as a fraction, e of either sign
RPow(b, e) == IF e >= 0 THEN <<Pow(b, e), 1>> ELSE <<1, Pow(b, -e)>>

\* calculate_waveguide_params in real arithmetic, for positive arguments.
\* Lengths are counted in units of 2.405 m and frequencies in units of
\* C_LIGHT / (2 * pi * 2.405) Hz, which makes 2.405, C_LIGHT and 2 * pi the
\* number 1 in every line. beta is given by its square max(0, beta_squared):
\* it is 0 exactly when that is 0.
waveguide_quantities(radius, frequency, epsilon_r, mu_r) ==
    LET wavelength == RDiv(One, frequency)
        k == RDiv(One, wavelength)
        kc == RDiv(One, radius)
        fc == RDiv(kc, RSqrt(RMul(epsilon_r, mu_r)))
        beta_squared == RSub(RMul(k, k), RMul(kc, kc))
    IN [wavelength |-> wavelength, k |-> k, kc |-> kc, fc |-> fc,
        beta2 |-> RMax(Zero, beta_squared),
        above_cutoff |-> RLe(fc, frequency),
        radius |-> radius]

\* The arguments of the calls of calculate_waveguide_params.
Radii == {RPow(2, e) : e \in -MaxExp..MaxExp}
Permittivities == {RPow(4, e) : e \in -MaxExp..MaxExp}
Frequencies == {RPow(2, e) : e \in -(3 * MaxExp)..(3 * MaxExp)}

\* The renderer's constants: max_radius, and the floor 1e-10 in the unit of the
\* samples.
max_radius == 85
FLOOR == 1

\* A field: NumSamples samples, each a whole number of units of 1e-10.
FieldArrays == [1..NumSamples -> -MaxSample..MaxSample]

\* np.abs(E_r), and its max()
Norm(field) == [i \in DOMAIN field |-> Abs(field[i])]
ArrayMax(norm) == CHOOSE m \in {norm[i] : i \in DOMAIN norm} : \A i \in DOMAIN norm : norm[i] <= m

\* E_norm.max() if E_norm.max() > 1e-10 else 1.0: the maximum in units of
\* 1e-10, or (one) the number 1.0.
FieldMax_nofloor(norm) == [m |-> ArrayMax(norm), one |-> FALSE]
FieldMax(norm) ==
    IF ArrayMax(norm) > FLOOR THEN [m |-> ArrayMax(norm), one |-> FALSE]
    ELSE [m |-> 1, one |-> TRUE]

\* The plotted radii of render_field_distribution: the field of the view is
\* divided by its own maximum and scaled to max_radius. A radius is the
\* fraction num / den, times 1e-10 when the divisor was 1.0 (tiny); den = 0 is
\* a division by zero.
plot_radii(E_r, H_r, field_view) ==
    LET E_norm == Norm(E_r)
        H_norm == Norm(H_r)
        E_max == FieldMax(E_norm)
        H_max == FieldMax(H_norm)
        field_norm == IF field_view = "e_only" THEN E_norm ELSE H_norm
        field_max == IF field_view = "e_only" THEN E_max ELSE H_max
    IN [field_norm |-> field_norm,
        field_max |-> field_max,
        r |-> [i \in DOMAIN field_norm |->
                  [num |-> field_norm[i] * max_radius,
                   den |-> field_max.m,
                   tiny |-> field_max.one]]]

\* calculate_waveguide_params is called with some arguments.
CallWaveguide ==
    /\ fcall = <<>>
    /\ \E radius \in Radii, frequency \in Frequencies,
          epsilon_r \in Permittivities, mu_r \in Permittivities :
          /\ fcall' = <<[fn |-> "calculate_waveguide_params",
                         args |-> <<radius, frequency, epsilon_r, mu_r>>]>>
          /\ fret' = <<waveguide_quantities(radius, frequency, epsilon_r, mu_r)>>
    /\ UNCHANGED pvars

\* render_field_distribution is called with some fields and a view.
CallRender ==
    /\ fcall = <<>>
    /\ \E E_r \in FieldArrays, H_r \in FieldArrays, field_view \in {"e_only", "h_only"} :
          /\ fcall' = <<[fn |-> "render_field_distribution",
                         args |-> <<E_r, H_r, field_view>>]>>
          /\ fret' = <<plot_radii(E_r, H_r, field_view)>>
    /\ UNCHANGED pvars

\* The call is over.
Return ==
    /\ fcall # <<>>
    /\ fcall' = <<>>
    /\ fret' = <<>>
    /\ UNCHANGED pvars

FieldNext == CallWaveguide \/ CallRender \/ Return

FieldSpec == Init /\ [][FieldNext]_vars

\* ------------------------------------------------------------------ claims
Fields == {"field_view", "radius", "frequency", "epsilon_r", "mu_r", "running"}
RecognizedKeys == {KeyOrder[i] : i \in DOMAIN KeyOrder}

\* The recognized keys of a body whose values can be coerced.
AcceptedKeys(data) ==
    {k \in RecognizedKeys : Has(data, k) /\ Coerce(k, Get(data, k)) # <<>>}

\* s is the dictionary entirely before or entirely after every update that is
\* inside its with block now.
AtUpdateBoundary(s) ==
    \A g \in Handlers :
        hpc[g] = "update" =>
            \/ s = startStore[g][1]
            \/ s = RunUpdate(startStore[g][1], hdata[g], 1).st

\* C1: every copy taken by the display loop, by GET /api/params or by GET / is
\* the dictionary as it stood entirely before or entirely after each update:
\* no copy holds some of the field writes of an update and not the others.
C1_SnapshotsAtomic ==
    [][ /\ (params' # params /\ params' # <<>>) => AtUpdateBoundary(params'[1])
        /\ \A h \in Handlers :
               (hparams'[h] # hparams[h] /\ hparams'[h] # <<>>)
                   => AtUpdateBoundary(hparams'[h][1]) ]_vars

\* The display loop holds a copy while an update has written part of its
\* fields and a GET waits for the lock.
C1_Witness ==
    /\ params # <<>>
    /\ \E h, g \in Handlers :
           /\ hpc[h] = "update" /\ hi[h] <= Len(KeyOrder)
           /\ simulation_state # startStore[h][1]
           /\ hpc[g] = "enter" /\ hop[g] = "GET"

\* C2: when one value of an update cannot be coerced, only that key is
\* skipped: every other recognized key with a coercible value is in the
\* dictionary when the update ends, and the caller gets the ok response.
C2_OnlyOffendingKeySkipped ==
    \A h \in Handlers :
        (/\ hpc[h] = "sent" /\ hop[h] = "POST"
         /\ Cardinality({k \in RecognizedKeys : Has(hdata[h], k)}) > 1) =>
            /\ hresp[h][1].status = "ok"
            /\ \A k \in AcceptedKeys(hdata[h]) :
                   endStore[h][1][k] = Coerce(k, Get(hdata[h], k))[1]

\* C3: an update changes only the fields named by recognized keys with
\* coercible values: all through its with block every other field has the
\* value it had on entry, and at the end of the update {"radius": 5} the
\* dictionary is the one on entry with radius 5.0.
C3_FrameEffect ==
    \A h \in Handlers :
        hpc[h] = "update" =>
            /\ \A f \in Fields \ AcceptedKeys(hdata[h]) :
                   simulation_state[f] = startStore[h][1][f]
            /\ (hi[h] > Len(KeyOrder) /\ hdata[h] = <<Member("radius", JNum(5))>>)
                   => simulation_state = [startStore[h][1] EXCEPT !.radius = Fin(5)]

\* An update with an unrecognized key only, one with a non-numeric frequency
\* or the update {"radius": 5} is at the end of its with block, after an
\* earlier update changed the dictionary.
C3_Witness ==
    \E h \in Handlers :
        /\ hpc[h] = "update" /\ hi[h] > Len(KeyOrder)
        /\ startStore[h][1] # DEFAULT_PARAMS
        /\ hdata[h] \in { <<Member("radius", JNum(5))>>,
                          <<Member("bogus", JNum(1))>>,
                          <<Member("frequency", JStr("abc"))>> }

\* C4: the params of the response to a POST are the dictionary as it stood
\* when that update left its with block.
C4_ResponseIsOwnSnapshot ==
    \A h \in Handlers :
        (hpc[h] = "sent" /\ hop[h] = "POST" /\ hresp[h][1].status = "ok")
            => hresp[h][1].params = endStore[h]

\* C5: every numeric field of the dictionary is finite and field_view is one
\* of e_only and h_only.
C5_FiniteAndKnownView ==
    /\ \A k \in NumericKeys : simulation_state[k].c = "fin"
    /\ simulation_state.field_view \in {JStr("e_only"), JStr("h_only")}

\* C6: the field model never raises, so the display loop is never ended by
\* an exception of it.
C6_FieldModelNeverRaises == dpc # "crashed"

LoopExited == dpc \in {"done", "crashed", "crashed_sink"}

\* C8: once shutdown_event is set the loop starts no new iteration, finishes
\* at most the iteration in progress (at most one push and one sleep) and
\* then exits.
C8_ShutdownStopsLoop ==
    /\ [](pushes_after <= 1 /\ sleeps_after <= 1)
    /\ [][(shutdown_event /\ dpc = "loop") => dpc' \in {"loop", "done"}]_vars
    /\ (shutdown_event ~> LoopExited)

\* The flag was set in the middle of an iteration, which pushed its frame and
\* slept; the loop is at its test, which it will not pass.
C8_Witness == shutdown_event /\ dpc = "loop" /\ pushes_after = 1 /\ sleeps_after = 1

\* The sink is unavailable: the driver is missing or its constructor raised.
SinkUnavailable == dpc # "init" /\ (~DISPLAY_AVAILABLE \/ display_instance = "None")

\* C9: without a sink the loop iterates as with one: every Live iteration
\* takes its copy and computes its frame from it, the sink is never called
\* and the loop is never ended by the absence of the sink.
C9_HeadlessLoopRuns ==
    SinkUnavailable =>
        /\ pushed = <<>>
        /\ dpc # "crashed_sink"
        /\ (dpc = "loop" /\ phase = "Live") =>
               (params # <<>> /\ img.kind = "field" /\ img.from = params)
        /\ (dpc = "loop" /\ phase = "Splash") => img.kind = "splash"

\* The constructor of the driver raised and a Live iteration has ended.
C9_Witness ==
    /\ SinkUnavailable /\ DISPLAY_AVAILABLE
    /\ dpc = "loop" /\ phase = "Live"

\* C10: updates are applied one at a time: at most one is inside its with
\* block, and whenever none is, the dictionary is the result of running the
\* updates one after another in the order they acquired the lock.
C10_UpdatesSerialized ==
    /\ Cardinality({h \in Handlers : hpc[h] = "update"}) <= 1
    /\ (\A h \in Handlers : hpc[h] # "update") => simulation_state = seqStore

\* Two updates that both write radius have ended; g acquired the lock after
\* h and its value remains.
C10_Witness ==
    \E h, g \in Handlers :
        /\ h # g
        /\ hpc[h] = "sent" /\ hop[h] = "POST" /\ Has(hdata[h], "radius")
        /\ hpc[g] = "sent" /\ hop[g] = "POST" /\ Has(hdata[g], "radius")
        /\ Get(hdata[h], "radius") # Get(hdata[g], "radius")
        /\ endStore[g][1] = RunUpdate(endStore[h][1], hdata[g], 1).st
        /\ simulation_state = endStore[g][1]
        /\ simulation_state.radius = float(Get(hdata[g], "radius"))[1]

\* C11: calculate_waveguide_params returns above_cutoff true exactly when
\* frequency >= fc, and whenever frequency equals the cutoff frequency fc it
\* computed, the beta it returns is 0.
C11_CutoffAndBeta ==
    (fcall # <<>> /\ fcall[1].fn = "calculate_waveguide_params") =>
        LET frequency == fcall[1].args[2]
            wg == fret[1]
        IN /\ wg.above_cutoff <=> RLe(wg.fc, frequency)
           /\ (frequency = wg.fc) => wg.beta2 = Zero

\* The field plotted by a call of render_field_distribution, as magnitudes.
PlottedNorm == Norm(IF fcall[1].args[3] = "e_only" THEN fcall[1].args[1] ELSE fcall[1].args[2])

\* C12: when the maximum magnitude of the plotted field exceeds 1e-10, every
\* plotted radius is in [0, max_radius] and a sample of maximum magnitude is
\* plotted at exactly max_radius; when the field is all zero, the divisor is
\* 1.0, nothing is divided by zero and every sample is plotted at radius 0.
C12_RenderNormalized ==
    (fcall # <<>> /\ fcall[1].fn = "render_field_distribution") =>
        LET norm == PlottedNorm
            r == fret[1].r
        IN /\ ArrayMax(norm) > FLOOR =>
                  \A i \in DOMAIN norm :
                      /\ r[i].den > 0 /\ ~r[i].tiny
                      /\ 0 <= r[i].num /\ r[i].num <= max_radius * r[i].den
                      /\ norm[i] = ArrayMax(norm) => r[i].num = max_radius * r[i].den
           /\ ArrayMax(norm) = 0 =>
                  /\ fret[1].field_max = [m |-> 1, one |-> TRUE]
                  /\ \A i \in DOMAIN norm : r[i].den # 0 /\ r[i].num = 0

\* The magnetic view of a field whose peak is a negative sample and whose
\* other sample is smaller, while the electric field is all zero.
C12_Witness ==
    /\ fcall # <<>> /\ fcall[1].fn = "render_field_distribution"
    /\ fcall[1].args[3] = "h_only"
    /\ fcall[1].args[1] = [i \in 1..NumSamples |-> 0]
    /\ fcall[1].args[2][1] = -MaxSample
    /\ \E i \in 1..NumSamples : Abs(fcall[1].args[2][i]) \in 1..(MaxSample - 1)
    /\ fret[1].r[1].num = max_radius * fret[1].r[1].den

\* C13: the lock is held only by a thread that is copying the dictionary or
\* writing it: the display loop does not hold it while it computes, renders,
\* pushes or sleeps, no handler holds it while it builds its response, and
\* so a waiting update waits for a copy or for another update only.
C13_LockOnlyForCopy ==
    /\ state_lock \in {Free, DisplayThread} \cup {Handler(h) : h \in Handlers}
    /\ state_lock = DisplayThread => dpc = "copy"
    /\ \A h \in Handlers : state_lock = Handler(h) => hpc[h] \in {"update", "copy"}
    /\ dpc \in {"loop", "frame"} => state_lock # DisplayThread
    /\ \A h \in Handlers : hpc[h] \in {"respond", "sent"} => state_lock # Handler(h)

\* The display loop computes a Live frame and a handler builds the response
\* to its update while another update is inside its with block.
C13_Witness ==
    /\ dpc = "frame" /\ phase = "Live"
    /\ \E h, g \in Handlers :
           /\ hpc[h] = "respond" /\ hop[h] = "POST"
           /\ hpc[g] = "update" /\ state_lock = Handler(g)

\* C14: a Live iteration takes one snapshot, which holds every update
\* completed before it, and pushes at most one frame, computed from that
\* snapshot alone; no frame of an earlier iteration is pushed again.
C14_OneSnapshotOneFrame ==
    /\ [](dpc = "loop" /\ phase = "Live" =>
            /\ params # <<>>
            /\ <<img>> = LiveFrame(params[1])
            /\ img.from = params
            /\ pushed \in {<<>>, <<img>>}
            /\ SinkPresent => pushed = <<img>>)
    /\ [][(params' # params /\ params' # <<>>) =>
            (dpc = "copy" /\ params = <<>> /\ params' = <<seqStore>>)]_vars
    /\ [][(phase = "Live" /\ pushed' # pushed /\ pushed' # <<>>) =>
            (dpc = "frame" /\ pushed = <<>> /\ pushed'[1].from = params
             /\ pushed' = LiveFrame(params[1]))]_vars

\* A Live iteration has pushed its frame: its snapshot holds an update made
\* before it, and a later update has changed the dictionary since.
C14_Witness ==
    /\ dpc = "loop" /\ phase = "Live"
    /\ pushed # <<>> /\ pushed[1].from = params
    /\ params[1] # DEFAULT_PARAMS
    /\ simulation_state # params[1]

\* C15: the lock is released on every way out of the with block of an update,
\* the exception of a failed coercion included: a handler past its block does
\* not hold the lock, the lock is free whenever no thread is inside a block,
\* and a display loop or a request waiting for the lock gets it.
C15_LockReleasedOnEveryExit ==
    /\ [](\A h \in Handlers : (hraised[h] /\ hpc[h] # "update") => state_lock # Handler(h))
    /\ []((dpc # "copy" /\ \A h \in Handlers : hpc[h] \notin {"update", "copy"})
              => state_lock = Free)
    /\ (dpc = "lock") ~> (dpc = "copy")
    /\ \A h \in Handlers : (hpc[h] = "enter") ~> (hpc[h] \in {"update", "copy"})

\* An update has failed and is over, and the display loop has acquired the
\* lock after it.
C15_Witness ==
    /\ state_lock = DisplayThread /\ dpc = "copy"
    /\ \E h \in Handlers : hraised[h] /\ hpc[h] \in {"respond", "sent"}

\* The order of the keys that the claim names.
FixedRank == [field_view |-> 1, radius |-> 2, frequency |-> 3, epsilon_r |-> 4, mu_r |-> 5]

\* The key an update fails on: the first one in that order whose value cannot
\* be coerced.
FailingKey(data) ==
    CHOOSE k \in RecognizedKeys :
        /\ k \notin AcceptedKeys(data) /\ Has(data, k)
        /\ \A j \in RecognizedKeys :
               (Has(data, j) /\ j \notin AcceptedKeys(data)) => FixedRank[k] <= FixedRank[j]

\* C16: when an update fails on key k, the dictionary it leaves has the
\* recognized keys of the body that precede k in the fixed order written, and
\* every other field as it was on entry, whatever the order of the body.
C16_PrefixWritten ==
    \A h \in Handlers :
        (hpc[h] = "update" /\ hraised[h]) =>
            LET k == FailingKey(hdata[h])
            IN \A f \in Fields :
                   simulation_state[f] =
                       IF f \in AcceptedKeys(hdata[h]) /\ FixedRank[f] < FixedRank[k]
                       THEN Coerce(f, Get(hdata[h], f))[1]
                       ELSE startStore[h][1][f]

\* The update whose body names mu_r, then a non-numeric frequency, then radius
\* has failed: radius is written and mu_r is not.
C16_Witness ==
    \E h \in Handlers :
        /\ hpc[h] = "update" /\ hraised[h]
        /\ hdata[h] = <<Member("mu_r", JNum(2)), Member("frequency", JStr("abc")),
                        Member("radius", JNum(7))>>
        /\ startStore[h][1].radius # Fin(7) /\ simulation_state.radius = Fin(7)
        /\ startStore[h][1].mu_r # Fin(2) /\ simulation_state.mu_r = startStore[h][1].mu_r

====
